---- MODULE Spec2Model ----
(***************************************************************************)
(* Model of rust_server_monitor_backend (src/src/main.rs).                 *)
(*                                                                         *)
(* Two kinds of task share an AppState:                                    *)
(*   - the Sampler, the task spawned in main (lines 121-140), which        *)
(*     measures the per-core CPU usage and stores the sum in the CpuInfo   *)
(*     cell under the write half of a tokio RwLock;                        *)
(*   - the Aggregator, get_system_info (lines 60-103), run once per        *)
(*     request, which takes the read half of both RwLocks and assembles a  *)
(*     SystemInfo.                                                         *)
(* format_uptime (lines 51-58) is a pure function; it is checked under     *)
(* SpecUptime, the concurrent part under Spec.                             *)
(*                                                                         *)
(* Abstractions: f32 usages are whole percents; byte counts are small      *)
(* naturals; a String is a sequence of one-character strings where its     *)
(* characters matter (the uptime) and an atom elsewhere.                   *)
(***************************************************************************)
EXTENDS Integers, Sequences, FiniteSets, TLC

\* ------------------------------------------------------------- bounds
\* Concurrent get_system_info invocations (request slots, each reusable).
NumCalls == 2
\* Sampler loop iterations explored (the loop itself is unbounded).
MaxCycles == 2
\* Largest uptime, in days, given to format_uptime.
MaxUptimeDays == 100

\* ------------------------------------------------------- format_uptime
Digits == <<"0", "1", "2", "3", "4", "5", "6", "7", "8", "9">>

\* Display of an unsigned integer: its decimal digits, most significant first.
RECURSIVE Decimal(_)
Decimal(n) ==
    IF n < 10 THEN <<Digits[n + 1]>>
    ELSE Decimal(n \div 10) \o <<Digits[(n % 10) + 1]>>

\* Mutant of Pad2: the width and fill are dropped ("{}" for "{:02}").
Pad2_unpadded(n) == Decimal(n)

\* "{:02}": minimum width 2, filled with zeros on the left; wider numbers
\* are written in full.
Pad2(n) ==
    LET d == Decimal(n)
    IN  IF Len(d) < 2 THEN <<"0">> \o d ELSE d

\* Mutant of format_uptime: the hours are not reduced modulo one day.
format_uptime_hours_unreduced(seconds) ==
    LET days    == seconds \div 86400
        hours   == seconds \div 3600
        minutes == (seconds % 3600) \div 60
        secs    == seconds % 60
    IN  Pad2(days) \o <<":">> \o Pad2(hours) \o <<":">> \o
        Pad2(minutes) \o <<":">> \o Pad2(secs)

format_uptime(seconds) ==
    LET days    == seconds \div 86400
        hours   == (seconds % 86400) \div 3600
        minutes == (seconds % 3600) \div 60
        secs    == seconds % 60
    IN  Pad2(days) \o <<":">> \o Pad2(hours) \o <<":">> \o
        Pad2(minutes) \o <<":">> \o Pad2(secs)

\* ------------------------------------------------------------ the host
\* What the platform primitives of sysinfo report; the host changes under
\* the program's feet (HostTick below).

\* Seconds the host's clock advances while the model runs.
MaxTicks == 2
\* The hosts the program is started on: the logical cores (none when no
\* processor is detected), the first processor's brand, and what
\* System::host_name() returns (None, or Some(name)).
NoName == "<none>"
HostKinds ==
    { [cores |-> 0, brand |-> "", name |-> NoName],
      [cores |-> 2, brand |-> "cpu-x", name |-> "monitor"] }
\* Per-core usage percentages one measurement may report.
CoreUsage == {0, 100}
\* Seconds since boot at startup.
BootUptimes == {93783, 93784, 93785}
\* A volume as sysinfo's Disk reports it.
Disk(n, total, avail) ==
    [name |-> n, mount_point |-> "/" \o n, total_space |-> total,
     available_space |-> avail]
\* An interface's counters as sysinfo's NetworkData reports them.
NetworkData(rx, tx) == [received |-> rx, transmitted |-> tx, packets_received |-> rx]
IfaceData == [lo |-> NetworkData(1, 1), eth0 |-> NetworkData(2, 0)]
\* The loads the host goes through, one per second: total and available
\* memory, the mounted volumes in enumeration order, the interfaces.
HostLoads ==
    << [mem |-> [total |-> 3, available |-> 1],
        disks |-> <<Disk("sda", 2, 1), Disk("sdb", 1, 0)>>,
        nets |-> {"lo", "eth0"}],
       [mem |-> [total |-> 3, available |-> 3],
        disks |-> <<>>,
        nets |-> {}],
       [mem |-> [total |-> 3, available |-> 0],
        disks |-> <<Disk("sda", 2, 0)>>,
        nets |-> {"lo"}] >>
\* The load when the host has been up for k seconds.
HostLoad(k) == HostLoads[(k % Len(HostLoads)) + 1]

\* --------------------------------------------------------------- tasks
Sampler == 0
Calls == 1..NumCalls

VARIABLES
    \* the host
    hostCores, hostBrand, hostName, hostBoot, hostUptime, hostMem, hostDisks, hostNets,
    \* AppState (lines 46-49): the two cells and their tokio RwLocks
    cpu_info, cpu_lock, system, system_lock,
    \* the Sampler task (lines 121-140)
    sampler, cycles,
    \* the get_system_info invocations (lines 60-103); slots are the
    \* invocations the server may run
    slots, pc, frame,
    \* history: what was written to and read from the CpuInfo cell
    cellVer, published, lastReadVer, obs,
    \* format_uptime applied to an arbitrary input (SpecUptime)
    fmt_pc, fmt_in, fmt_out

hostVars == <<hostCores, hostBrand, hostName, hostBoot, hostUptime, hostMem, hostDisks, hostNets>>
stateVars == <<cpu_info, cpu_lock, system, system_lock>>
samplerVars == <<sampler, cycles>>
callVars == <<slots, pc, frame>>
histVars == <<cellVer, published, lastReadVer, obs>>
fmtVars == <<fmt_pc, fmt_in, fmt_out>>
vars == <<hostVars, stateVars, samplerVars, callVars, histVars, fmtVars>>

\* ------------------------------------------------------- tokio::sync::RwLock
\* A fair lock: readers hold it together, a writer alone, and tasks that
\* cannot take it at once wait in a first-in, first-out queue.
FreeLock == [readers |-> {}, writer |-> FALSE, queue |-> <<>>]

\* Mutant of CanRead: a reader does not wait for the writer.
CanRead_ignoring_writer(lock) == TRUE

\* Mutant of CanRead: a reader also waits for the other readers (a mutex).
CanRead_exclusive(lock) == lock.readers = {} /\ ~lock.writer /\ lock.queue = <<>>

\* Mutant of CanRead: a reader does not queue behind a waiting writer.
CanRead_ignoring_queue(lock) == ~lock.writer

\* read() is granted at once iff no writer holds the lock and nobody waits.
CanRead(lock) == ~lock.writer /\ lock.queue = <<>>

\* Mutant of CanWrite: the writer does not wait for the readers.
CanWrite_ignoring_readers(lock) == ~lock.writer /\ lock.queue = <<>>

\* write() is granted at once iff the lock is free and nobody waits.
CanWrite(lock) == lock.readers = {} /\ ~lock.writer /\ lock.queue = <<>>

\* Hands the lock to the waiters at the head of the queue, in order, for as
\* long as they can hold it together.
RECURSIVE Grant(_)
Grant(lock) ==
    IF lock.queue = <<>> THEN lock
    ELSE LET t == Head(lock.queue)
         IN  IF t = Sampler
             THEN IF lock.readers = {} /\ ~lock.writer
                  THEN [lock EXCEPT !.writer = TRUE, !.queue = Tail(@)]
                  ELSE lock
             ELSE IF ~lock.writer
                  THEN Grant([lock EXCEPT !.readers = @ \cup {t}, !.queue = Tail(@)])
                  ELSE lock

\* Task t waits in the queue of the lock.
Queued(lock, t) == \E i \in 1..Len(lock.queue) : lock.queue[i] = t

\* The tasks that wait in the queue ahead of task t.
Ahead(lock, t) ==
    {lock.queue[j] : j \in {i \in 1..Len(lock.queue) :
                               \E k \in (i + 1)..Len(lock.queue) : lock.queue[k] = t}}

\* read().await, first poll by task t.
AcquireRead(lock, t) ==
    IF CanRead(lock) THEN [lock EXCEPT !.readers = @ \cup {t}]
    ELSE [lock EXCEPT !.queue = Append(@, t)]

\* write().await, first poll by task t.
AcquireWrite(lock, t) ==
    IF CanWrite(lock) THEN [lock EXCEPT !.writer = TRUE]
    ELSE [lock EXCEPT !.queue = Append(@, t)]

\* Mutant of ReleaseRead: the guard is dropped without waking the waiters.
ReleaseRead_no_wake(lock, t) == [lock EXCEPT !.readers = @ \ {t}]

\* Drop of a read guard.
ReleaseRead(lock, t) == Grant([lock EXCEPT !.readers = @ \ {t}])

\* Mutant of ReleaseWrite: the write guard outlives the loop body.
ReleaseWrite_kept(lock) == lock

\* Drop of the write guard.
ReleaseWrite(lock) == Grant([lock EXCEPT !.writer = FALSE])

\* ------------------------------------------------------------- startup
\* CpuInfo built in main: the first processor's brand or "Unknown", usage 0.0.
StartupCpuInfo(cores, brand) ==
    [model |-> IF cores = 0 THEN "Unknown" ELSE brand, usage |-> 0]

\* System::new_with_specifics(everything) and refresh_all(): the handle keeps
\* what the host reported when it was refreshed.
RefreshAll(cores, mem) ==
    [cpus |-> cores, total_memory |-> mem.total, available_memory |-> mem.available]

\* A get_system_info invocation that has not computed any local yet.
EmptyFrame ==
    [hostname |-> "", uptime |-> <<>>, num_cores |-> 0,
     memory |-> [total |-> 0, used |-> 0, free |-> 0],
     disks |-> <<>>, network |-> <<>>,
     cpu_info |-> [model |-> "", usage |-> 0]]

\* Nothing observed yet by an invocation.
\*   after: the invocations in flight whose read() (line 61) returned
\*     before this one's;
\*   laterRead: the least store number read so far by an invocation whose
\*     read() returned after this one's (-1: none has read);
\*   verModel, verUsage: the store number of the cell when this invocation
\*     cloned each field; duringWrite: the write guard was held at a clone;
\*   fresh: the total of the last completed Sampler cycle at the clone;
\*   hostMem, hostDisks, hostNets: the host as it was at each query.
NoObs ==
    [after |-> {}, laterRead |-> -1,
     verModel |-> 0, verUsage |-> 0, duringWrite |-> FALSE, fresh |-> 0,
     hostMem |-> [total |-> 0, available |-> 0],
     hostDisks |-> <<>>, hostNets |-> {}]

\* Any host, as the program finds it at startup.
InitHost ==
    /\ \E h \in HostKinds :
         hostCores = h.cores /\ hostBrand = h.brand /\ hostName = h.name
    /\ hostBoot \in BootUptimes
    /\ hostUptime = hostBoot
    /\ hostMem = HostLoad(hostBoot).mem
    /\ hostDisks = HostLoad(hostBoot).disks
    /\ hostNets = HostLoad(hostBoot).nets

\* The state when main reaches HttpServer::run: both cells built from the
\* host as it was, the Sampler spawned, no request in flight.
InitProgram ==
    /\ cpu_info = StartupCpuInfo(hostCores, hostBrand)
    /\ system = RefreshAll(hostCores, hostMem)
    /\ cpu_lock = FreeLock
    /\ system_lock = FreeLock
    /\ sampler = [pc |-> "sleep", cpus |-> hostCores, total_usage |-> 0,
                  failed |-> FALSE]
    /\ cycles = 0
    /\ pc = [c \in Calls |-> "idle"]
    /\ frame = [c \in Calls |-> EmptyFrame]
    /\ cellVer = 0
    /\ published = 0
    /\ lastReadVer = 0
    /\ obs = [c \in Calls |-> NoObs]

\* Any number of concurrent requests, on a host that stays as it is.
Init ==
    /\ InitHost
    /\ \A b \in BootUptimes : hostBoot <= b
    /\ InitProgram
    /\ slots = Calls
    /\ fmt_pc = "idle" /\ fmt_in = 0 /\ fmt_out = <<>>

\* One request at a time, on a host that changes.
InitHostSpec ==
    /\ InitHost
    /\ InitProgram
    /\ slots = {1}
    /\ fmt_pc = "idle" /\ fmt_in = 0 /\ fmt_out = <<>>

\* ---------------------------------------------------------------- host
\* A second passes, and the host's memory, volumes and interfaces change.
HostTick ==
    /\ hostUptime < hostBoot + MaxTicks
    /\ hostUptime' = hostUptime + 1
    /\ hostMem' = HostLoad(hostUptime').mem
    /\ hostDisks' = HostLoad(hostUptime').disks
    /\ hostNets' = HostLoad(hostUptime').nets
    /\ UNCHANGED <<hostCores, hostBrand, hostName, hostBoot>>
    /\ UNCHANGED <<stateVars, samplerVars, callVars, histVars, fmtVars>>

\* ------------------------------------------------------------- Sampler
\* Mutant of SumUsage: each core's usage is added twice.
RECURSIVE SumUsage_twice(_)
SumUsage_twice(u) ==
    IF u = <<>> THEN 0 ELSE Head(u) + Head(u) + SumUsage_twice(Tail(u))

\* The for loop of lines 128-133: total_usage += cpu_usage over sys.cpus().
RECURSIVE SumUsage(_)
SumUsage(u) ==
    IF u = <<>> THEN 0 ELSE Head(u) + SumUsage(Tail(u))

\* Mutant of StoreUsage: the total is added to the published usage.
StoreUsage_accumulate(cell, total) == [cell EXCEPT !.usage = @ + total]

\* Mutant of StoreUsage: the store replaces the whole CpuInfo, built anew
\* without the model.
StoreUsage_whole_cell(cell, total) == [model |-> "", usage |-> total]

\* cpu_data.usage = total_usage (line 138).
StoreUsage(cell, total) == [cell EXCEPT !.usage = total]

\* std::thread::sleep(MINIMUM_CPU_UPDATE_INTERVAL) (line 126).
SamplerSleep ==
    /\ sampler.pc = "sleep"
    /\ cycles < MaxCycles
    /\ sampler' = [sampler EXCEPT !.pc = "measure"]
    /\ UNCHANGED <<cycles, hostVars, stateVars, callVars, histVars, fmtVars>>

\* refresh_cpu_all() and the summation (lines 127-135).
SamplerMeasure ==
    /\ sampler.pc = "measure"
    /\ \E u \in [1..sampler.cpus -> CoreUsage] :
         sampler' = [sampler EXCEPT !.pc = "write", !.total_usage = SumUsage(u)]
    /\ UNCHANGED <<cycles, hostVars, stateVars, callVars, histVars, fmtVars>>

\* refresh_cpu_all() (line 127) when the platform's read of the processor
\* times fails. The call returns nothing, so the loop goes on to the
\* summation over whatever the processors then report; only the history
\* field failed tells the cycle from a successful one.
SamplerMeasureFails ==
    /\ sampler.pc = "measure"
    /\ \E u \in [1..sampler.cpus -> CoreUsage] :
         sampler' = [sampler EXCEPT !.pc = "write", !.total_usage = SumUsage(u),
                                    !.failed = TRUE]
    /\ UNCHANGED <<cycles, hostVars, stateVars, callVars, histVars, fmtVars>>

\* cpu_info_clone.write().await, first poll (line 137).
SamplerWrite ==
    /\ sampler.pc = "write"
    /\ cpu_lock' = AcquireWrite(cpu_lock, Sampler)
    /\ sampler' = [sampler EXCEPT !.pc = IF cpu_lock'.writer THEN "store" ELSE "wait"]
    /\ UNCHANGED <<cpu_info, system, system_lock, cycles>>
    /\ UNCHANGED <<hostVars, callVars, histVars, fmtVars>>

\* The Sampler is woken holding the write lock (line 137).
SamplerWake ==
    /\ sampler.pc = "wait"
    /\ cpu_lock.writer
    /\ sampler' = [sampler EXCEPT !.pc = "store"]
    /\ UNCHANGED <<cycles, hostVars, stateVars, callVars, histVars, fmtVars>>

\* The store through the write guard (line 138).
SamplerStore ==
    /\ sampler.pc = "store"
    /\ cpu_info' = StoreUsage(cpu_info, sampler.total_usage)
    /\ cellVer' = cellVer + 1
    /\ sampler' = [sampler EXCEPT !.pc = "drop"]
    /\ UNCHANGED <<cpu_lock, system, system_lock, cycles>>
    /\ UNCHANGED <<published, lastReadVer, obs>>
    /\ UNCHANGED <<hostVars, callVars, fmtVars>>

\* End of the loop body: the write guard is dropped (line 139).
SamplerDrop ==
    /\ sampler.pc = "drop"
    /\ cpu_lock' = ReleaseWrite(cpu_lock)
    /\ cycles' = cycles + 1
    /\ published' = sampler.total_usage
    /\ sampler' = [sampler EXCEPT !.pc = "sleep", !.failed = FALSE]
    /\ UNCHANGED <<cpu_info, system, system_lock>>
    /\ UNCHANGED <<cellVer, lastReadVer, obs>>
    /\ UNCHANGED <<hostVars, callVars, fmtVars>>

SamplerStep ==
    \/ SamplerSleep \/ SamplerMeasure \/ SamplerWrite
    \/ SamplerWake \/ SamplerStore \/ SamplerDrop

\* ----------------------------------------------------- get_system_info
\* Program points of an invocation that lie after line 61 has returned.
PastCpuRead == {"read_sys", "disks", "network",
                "clone_model", "clone_usage", "respond"}

\* What an invocation sees through its read guard on the CpuInfo cell,
\* with the number of the store that produced it.
CellSeen(c) ==
    [model |-> cpu_info.model, usage |-> cpu_info.usage, ver |-> cellVer]

\* Mutant of MemoryInfo: used is the total, nothing subtracted.
MemoryInfo_used_total(sys) ==
    [total |-> sys.total_memory, used |-> sys.total_memory,
     free |-> sys.available_memory]

\* The number of values of a byte count: u64, scaled down to four bits.
U64Modulus == 16

\* u64 subtraction; it wraps when the subtrahend is the larger one (a
\* release build; a debug build panics there).
U64Sub(a, b) == (a - b + U64Modulus) % U64Modulus

\* Mutant of MemoryInfo: the operands of the subtraction are exchanged.
MemoryInfo_swapped(sys) ==
    [total |-> sys.total_memory,
     used |-> U64Sub(sys.available_memory, sys.total_memory),
     free |-> sys.available_memory]

\* The u64 subtraction a - b underflows: a debug build panics, a release
\* build wraps.
U64Underflows(a, b) == a < b

\* MemoryInfo { total, used, free } of lines 68-72.
MemoryInfo(sys) ==
    [total |-> sys.total_memory,
     used |-> U64Sub(sys.total_memory, sys.available_memory),
     free |-> sys.available_memory]

\* Mutant of DiskInfos: the first volume is skipped.
DiskInfos_skip_first(disks) ==
    [i \in 1..(Len(disks) - 1) |->
        [name |-> disks[i + 1].name, total_space |-> disks[i + 1].total_space,
         available_space |-> disks[i + 1].available_space]]

\* Disks::new_with_refreshed_list().iter().map(..).collect() (lines 74-81).
DiskInfos(disks) ==
    [i \in 1..Len(disks) |->
        [name |-> disks[i].name, total_space |-> disks[i].total_space,
         available_space |-> disks[i].available_space]]

\* The orders in which a HashMap of the interfaces may be iterated.
IterOrders(S) ==
    {o \in [1..Cardinality(S) -> S] : \A i, j \in DOMAIN o : i # j => o[i] # o[j]}

\* Networks::new_with_refreshed_list().iter().map(..).collect() (lines 83-90),
\* for one iteration order.
NetworkStats(order) ==
    [i \in DOMAIN order |->
        [name |-> order[i], received |-> IfaceData[order[i]].received,
         transmitted |-> IfaceData[order[i]].transmitted]]

\* data.cpu_info.read().await, first poll (line 61): a request arrives.
GetCpuRead(c) ==
    /\ pc[c] = "idle"
    /\ c \in slots
    /\ cpu_lock' = AcquireRead(cpu_lock, c)
    /\ IF c \in cpu_lock'.readers
       THEN /\ pc' = [pc EXCEPT ![c] = "read_sys"]
            /\ obs' = [obs EXCEPT ![c].after = {a \in Calls : pc[a] \in PastCpuRead}]
       ELSE /\ pc' = [pc EXCEPT ![c] = "wait_cpu"]
            /\ obs' = obs
    /\ UNCHANGED <<cpu_info, system, system_lock, slots, frame>>
    /\ UNCHANGED <<cellVer, published, lastReadVer>>
    /\ UNCHANGED <<hostVars, samplerVars, fmtVars>>

\* The invocation is woken holding the read lock (line 61).
WakeCpuRead(c) ==
    /\ pc[c] = "wait_cpu"
    /\ c \in cpu_lock.readers
    /\ pc' = [pc EXCEPT ![c] = "read_sys"]
    /\ obs' = [obs EXCEPT ![c].after = {a \in Calls : pc[a] \in PastCpuRead}]
    /\ UNCHANGED <<slots, frame, cellVer, published, lastReadVer>>
    /\ UNCHANGED <<hostVars, stateVars, samplerVars, fmtVars>>

\* data.system.read().await (line 62), which never waits as nothing takes
\* the write half, then hostname, uptime, num_cores and memory (lines 64-72).
ReadSystem(c) ==
    /\ pc[c] = "read_sys"
    /\ CanRead(system_lock)
    /\ system_lock' = AcquireRead(system_lock, c)
    /\ frame' = [frame EXCEPT
                   ![c].hostname = IF hostName = NoName THEN "Unknown" ELSE hostName,
                   ![c].uptime = format_uptime(hostUptime),
                   ![c].num_cores = system.cpus,
                   ![c].memory = MemoryInfo(system)]
    /\ obs' = [obs EXCEPT ![c].hostMem = hostMem]
    /\ pc' = [pc EXCEPT ![c] = "disks"]
    /\ UNCHANGED <<cpu_info, cpu_lock, system, slots>>
    /\ UNCHANGED <<cellVer, published, lastReadVer>>
    /\ UNCHANGED <<hostVars, samplerVars, fmtVars>>

\* disks (lines 74-81).
EnumDisks(c) ==
    /\ pc[c] = "disks"
    /\ frame' = [frame EXCEPT ![c].disks = DiskInfos(hostDisks)]
    /\ obs' = [obs EXCEPT ![c].hostDisks = hostDisks]
    /\ pc' = [pc EXCEPT ![c] = "network"]
    /\ UNCHANGED <<slots, cellVer, published, lastReadVer>>
    /\ UNCHANGED <<hostVars, stateVars, samplerVars, fmtVars>>

\* network (lines 83-90).
EnumNetworks(c) ==
    /\ pc[c] = "network"
    /\ \E order \in IterOrders(hostNets) :
         frame' = [frame EXCEPT ![c].network = NetworkStats(order)]
    /\ obs' = [obs EXCEPT ![c].hostNets = hostNets]
    /\ pc' = [pc EXCEPT ![c] = "clone_model"]
    /\ UNCHANGED <<slots, cellVer, published, lastReadVer>>
    /\ UNCHANGED <<hostVars, stateVars, samplerVars, fmtVars>>

\* cpu_info.clone() (line 93), first field: the model String.
CloneModel(c) ==
    /\ pc[c] = "clone_model"
    /\ frame' = [frame EXCEPT ![c].cpu_info.model = CellSeen(c).model]
    /\ obs' = [obs EXCEPT ![c].verModel = CellSeen(c).ver,
                          ![c].duringWrite = cpu_lock.writer]
    /\ pc' = [pc EXCEPT ![c] = "clone_usage"]
    /\ UNCHANGED <<slots, cellVer, published, lastReadVer>>
    /\ UNCHANGED <<hostVars, stateVars, samplerVars, fmtVars>>

\* Mutant of AfterClone: the value is moved out of the cell, which is left
\* with the default usage.
AfterClone_taken(cell) == [cell EXCEPT !.usage = 0]

\* The cell after cpu_info.clone() (line 93): clone() borrows the value
\* through the read guard and leaves it as it was.
AfterClone(cell) == cell

\* cpu_info.clone() (line 93), second field: the usage; the SystemInfo of
\* lines 92-100 is then complete.
CloneUsage(c) ==
    /\ pc[c] = "clone_usage"
    /\ frame' = [frame EXCEPT ![c].cpu_info.usage = CellSeen(c).usage]
    /\ obs' = [a \in Calls |->
                IF a = c
                THEN [obs[c] EXCEPT !.verUsage = CellSeen(c).ver,
                                    !.duringWrite = @ \/ cpu_lock.writer,
                                    !.fresh = published]
                ELSE IF a \in obs[c].after /\ (obs[a].laterRead = -1
                                                \/ CellSeen(c).ver < obs[a].laterRead)
                THEN [obs[a] EXCEPT !.laterRead = CellSeen(c).ver]
                ELSE obs[a]]
    /\ lastReadVer' = CellSeen(c).ver
    /\ pc' = [pc EXCEPT ![c] = "respond"]
    /\ cpu_info' = AfterClone(cpu_info)
    /\ UNCHANGED <<slots, cellVer, published>>
    /\ UNCHANGED <<hostVars, cpu_lock, system, system_lock, samplerVars, fmtVars>>

\* web::Json(info) is returned and the guards are dropped, system first
\* (lines 102-103).
Respond(c) ==
    /\ pc[c] = "respond"
    /\ system_lock' = ReleaseRead(system_lock, c)
    /\ cpu_lock' = ReleaseRead(cpu_lock, c)
    /\ pc' = [pc EXCEPT ![c] = "idle"]
    /\ frame' = [frame EXCEPT ![c] = EmptyFrame]
    /\ obs' = [a \in Calls |->
                IF a = c THEN NoObs ELSE [obs[a] EXCEPT !.after = @ \ {c}]]
    /\ UNCHANGED <<cpu_info, system, slots>>
    /\ UNCHANGED <<cellVer, published, lastReadVer>>
    /\ UNCHANGED <<hostVars, samplerVars, fmtVars>>

get_system_info(c) ==
    \/ GetCpuRead(c) \/ WakeCpuRead(c) \/ ReadSystem(c)
    \/ EnumDisks(c) \/ EnumNetworks(c)
    \/ CloneModel(c) \/ CloneUsage(c) \/ Respond(c)

Next == SamplerStep \/ \E c \in Calls : get_system_info(c)

Spec == Init /\ [][Next]_vars

\* The steps of an invocation once the request has arrived: the handler
\* runs on a worker thread until it returns, and a task woken by the lock
\* is polled again.
Proceed(c) ==
    \/ WakeCpuRead(c) \/ ReadSystem(c)
    \/ EnumDisks(c) \/ EnumNetworks(c)
    \/ CloneModel(c) \/ CloneUsage(c) \/ Respond(c)

\* Fair scheduling: every invocation in flight and the Sampler task are
\* run again whenever they can go on. Nothing makes requests arrive.
Fairness ==
    /\ \A c \in Calls : WF_vars(Proceed(c))
    /\ WF_vars(SamplerStep)

\* As Init, with two invocations that may be in flight together.
InitFair ==
    /\ InitHost
    /\ \A b \in BootUptimes : hostBoot <= b
    /\ InitProgram
    /\ slots = {1, 2}
    /\ fmt_pc = "idle" /\ fmt_in = 0 /\ fmt_out = <<>>

FairSpec == InitFair /\ [][Next]_vars /\ Fairness

NextHost ==
    \/ HostTick
    \/ SamplerStep
    \/ SamplerMeasureFails
    \/ \E c \in Calls : get_system_info(c)

SpecHost == InitHostSpec /\ [][NextHost]_vars

\* ----------------------------------------- format_uptime on any input
\* The raw seconds given to format_uptime: every day count up to
\* MaxUptimeDays with the hours, minutes and seconds of the spec's examples
\* and of the ends of their ranges.
UptimeInputs ==
    {d * 86400 + h * 3600 + m * 60 + x :
        d \in 0..MaxUptimeDays, h \in {0, 2, 23}, m \in {0, 3, 59}, x \in {0, 4, 59}}

InitUptime ==
    /\ InitHost
    /\ \A b \in BootUptimes : hostBoot <= b
    /\ InitProgram
    /\ slots = {}
    /\ fmt_pc = "idle" /\ fmt_in \in UptimeInputs /\ fmt_out = <<>>

\* format_uptime(seconds) is called.
FormatUptime ==
    /\ fmt_pc = "idle"
    /\ fmt_out' = format_uptime(fmt_in)
    /\ fmt_pc' = "done"
    /\ UNCHANGED <<fmt_in, hostVars, stateVars, samplerVars, callVars, histVars>>

NextUptime == FormatUptime

SpecUptime == InitUptime /\ [][NextUptime]_vars

\* =============================================================== claims
\* A response is the SystemInfo an invocation holds at "respond", where
\* lines 92-100 have built it and line 102 is about to return it.
Responding(c) == pc[c] = "respond"

\* The model string the CpuInfo cell is given at startup.
StartupModel == StartupCpuInfo(hostCores, hostBrand).model

\* --- C1
\* C1: no torn reads. The (model, usage) an invocation returns was cloned
\* from one state of the cell (both fields at the same store number), with
\* no Sampler write in progress at either clone, and is a whole value the
\* cell was given: the startup model with the total of the last completed
\* cycle (the startup usage 0 if there is none).
C1_NoTornRead ==
    \A c \in Calls :
        Responding(c) =>
            /\ ~obs[c].duringWrite
            /\ obs[c].verModel = obs[c].verUsage
            /\ frame[c].cpu_info = [model |-> StartupModel, usage |-> obs[c].fresh]

\* A response carrying the first cycle's value, about to be returned while
\* the Sampler waits for the write lock behind this reader.
C1_Witness ==
    \E c \in Calls :
        /\ Responding(c)
        /\ obs[c].verUsage = 1
        /\ frame[c].cpu_info.usage > 0
        /\ sampler.pc = "wait"

\* --- C2
\* C2: freshness. The usage an invocation returns is the total published
\* by the most recent Sampler cycle completed when it read the cell, and
\* the startup value 0 if no cycle had completed.
C2_Fresh ==
    \A c \in Calls :
        Responding(c) =>
            /\ frame[c].cpu_info.usage = obs[c].fresh
            /\ obs[c].verUsage = 0 => frame[c].cpu_info.usage = 0

\* A response with the total of the second cycle, which differs from the
\* startup value.
C2_Witness ==
    \E c \in Calls :
        /\ Responding(c)
        /\ cycles = 2
        /\ obs[c].verUsage = 2
        /\ frame[c].cpu_info.usage = published
        /\ published # 0

\* --- C3
\* C3: monotonic visibility. When an invocation reads the cell, the store
\* number it observes is not below the one observed by the read before it,
\* and not above the one observed by any invocation whose read() returned
\* after its own: of two invocations, the one whose read of the cell comes
\* second never returns an earlier cycle's value.
C3_Monotonic ==
    [][\A c \in Calls :
          (pc[c] = "clone_usage" /\ pc'[c] = "respond") =>
              /\ obs'[c].verUsage >= lastReadVer
              /\ obs[c].laterRead # -1 => obs'[c].verUsage <= obs[c].laterRead]_vars

\* Two responses in flight, the second reader having read a Sampler-written
\* value before the first cloned its own.
C3_Witness ==
    \E a, b \in Calls :
        /\ a # b
        /\ Responding(a) /\ Responding(b)
        /\ a \in obs[b].after
        /\ obs[a].laterRead >= 1
        /\ obs[a].verUsage >= 1

\* --- C4
\* C4: memory freshness (as claimed). The memory of a response is the
\* host's memory at the instant the invocation queried it.
C4_MemoryOfTheInstant ==
    \A c \in Calls :
        Responding(c) =>
            /\ frame[c].memory.total = obs[c].hostMem.total
            /\ frame[c].memory.free = obs[c].hostMem.available
            /\ frame[c].memory.used = obs[c].hostMem.total - obs[c].hostMem.available

\* --- C5
\* C5: in every response memory.used = memory.total - memory.free, total
\* and free being the shared handle's total and available memory.
C5_UsedIsTotalMinusFree ==
    \A c \in Calls :
        Responding(c) =>
            /\ frame[c].memory.total = system.total_memory
            /\ frame[c].memory.free = system.available_memory
            /\ frame[c].memory.used = frame[c].memory.total - frame[c].memory.free

\* A response on a host that has memory available, so that used < total.
C5_Witness ==
    \E c \in Calls :
        /\ Responding(c)
        /\ frame[c].memory.free > 0
        /\ frame[c].memory.used < frame[c].memory.total

\* --- C6, C7: the text of the uptime
IsDigit(ch) == \E i \in 1..10 : Digits[i] = ch

\* The fields of a string, split at the colons.
RECURSIVE Fields(_)
Fields(str) ==
    IF \A i \in 1..Len(str) : str[i] # ":" THEN <<str>>
    ELSE LET k == CHOOSE i \in 1..Len(str) :
                      str[i] = ":" /\ \A j \in 1..(i - 1) : str[j] # ":"
         IN  <<SubSeq(str, 1, k - 1)>> \o Fields(SubSeq(str, k + 1, Len(str)))

\* The number a sequence of decimal digits writes.
RECURSIVE Value(_)
Value(ds) ==
    IF ds = <<>> THEN 0
    ELSE 10 * Value(SubSeq(ds, 1, Len(ds) - 1))
         + ((CHOOSE i \in 1..10 : Digits[i] = ds[Len(ds)]) - 1)

AllDigits(ds) == ds # <<>> /\ \A i \in 1..Len(ds) : IsDigit(ds[i])

\* C6: format_uptime(S) writes days = S div 86400, hours = (S mod 86400)
\* div 3600, minutes = (S mod 3600) div 60, seconds = S mod 60, with
\* hours < 24, minutes < 60, seconds < 60 and the four adding up to S;
\* 93784 gives 01:02:03:04, 0 gives 00:00:00:00, 59 gives 00:00:00:59.
C6_Decomposition ==
    fmt_pc = "done" =>
        LET f == Fields(fmt_out)
        IN  /\ Len(f) = 4
            /\ \A i \in 1..4 : AllDigits(f[i])
            /\ Value(f[1]) = fmt_in \div 86400
            /\ Value(f[2]) = (fmt_in % 86400) \div 3600
            /\ Value(f[3]) = (fmt_in % 3600) \div 60
            /\ Value(f[4]) = fmt_in % 60
            /\ Value(f[2]) < 24 /\ Value(f[3]) < 60 /\ Value(f[4]) < 60
            /\ Value(f[1]) * 86400 + Value(f[2]) * 3600 + Value(f[3]) * 60
                 + Value(f[4]) = fmt_in
            /\ fmt_in = 93784 =>
                 fmt_out = <<"0", "1", ":", "0", "2", ":", "0", "3", ":", "0", "4">>
            /\ fmt_in = 0 =>
                 fmt_out = <<"0", "0", ":", "0", "0", ":", "0", "0", ":", "0", "0">>
            /\ fmt_in = 59 =>
                 fmt_out = <<"0", "0", ":", "0", "0", ":", "0", "0", ":", "5", "9">>

\* The spec's first example has been formatted.
C6_Witness ==
    /\ fmt_pc = "done"
    /\ fmt_in = 93784
    /\ fmt_out = <<"0", "1", ":", "0", "2", ":", "0", "3", ":", "0", "4">>

\* C7 (as claimed): for every S the uptime has the fixed shape DD:HH:MM:SS,
\* four colon-separated fields of exactly two digits.
C7_FixedShape ==
    fmt_pc = "done" =>
        /\ Len(fmt_out) = 11
        /\ \A i \in {3, 6, 9} : fmt_out[i] = ":"
        /\ \A i \in {1, 2, 4, 5, 7, 8, 10, 11} : IsDigit(fmt_out[i])

\* C7 (amended): for every S the uptime is four colon-separated decimal
\* fields, each zero-padded to at least two digits: hours, minutes and
\* seconds have exactly two digits, days has exactly two digits when
\* S < 8640000 (under 100 days) and otherwise the digits of the day count,
\* without a leading zero.
C7_PaddedShape ==
    fmt_pc = "done" =>
        LET f == Fields(fmt_out)
        IN  /\ Len(f) = 4
            /\ \A i \in 1..4 : AllDigits(f[i]) /\ Len(f[i]) >= 2
            /\ \A i \in 2..4 : Len(f[i]) = 2
            /\ Len(f[1]) = 2 <=> fmt_in < 8640000
            /\ Len(f[1]) > 2 => f[1][1] # "0"

\* An uptime of 100 days or more has been formatted: the days field has
\* three digits.
C7_Witness ==
    /\ fmt_pc = "done"
    /\ fmt_in >= 8640000
    /\ Len(Fields(fmt_out)[1]) = 3

\* --- C8
\* C8: in every response 0 <= cpu_info.usage <= num_cores * 100, the
\* per-core usages of a measurement lying in 0..100.
C8_UsageBounded ==
    /\ CoreUsage \subseteq 0..100
    /\ \A c \in Calls :
         Responding(c) =>
             /\ frame[c].num_cores = system.cpus
             /\ frame[c].cpu_info.usage >= 0
             /\ frame[c].cpu_info.usage <= frame[c].num_cores * 100

\* A response reporting every core fully used.
C8_Witness ==
    \E c \in Calls :
        /\ Responding(c)
        /\ frame[c].num_cores = 2
        /\ frame[c].cpu_info.usage = 200

\* --- C9
\* C9: the disks and network lists of a response hold exactly one entry
\* per volume and per interface the host had when the invocation
\* enumerated them (none when it had none), with that volume's or
\* interface's figures, whatever the host had at earlier requests; and an
\* invocation that has reached an enumeration can always carry it out.
C9_FreshEnumeration ==
    \A c \in Calls :
      /\ pc[c] = "disks" => ENABLED EnumDisks(c)
      /\ pc[c] = "network" => ENABLED EnumNetworks(c)
      /\ Responding(c) =>
            /\ Len(frame[c].disks) = Len(obs[c].hostDisks)
            /\ \A i \in 1..Len(frame[c].disks) :
                 /\ frame[c].disks[i].name = obs[c].hostDisks[i].name
                 /\ frame[c].disks[i].total_space = obs[c].hostDisks[i].total_space
                 /\ frame[c].disks[i].available_space
                      = obs[c].hostDisks[i].available_space
            /\ Len(frame[c].network) = Cardinality(obs[c].hostNets)
            /\ {frame[c].network[i].name : i \in 1..Len(frame[c].network)}
                 = obs[c].hostNets
            /\ \A i \in 1..Len(frame[c].network) :
                 /\ frame[c].network[i].received
                      = IfaceData[frame[c].network[i].name].received
                 /\ frame[c].network[i].transmitted
                      = IfaceData[frame[c].network[i].name].transmitted

\* A response with empty lists on a host that had volumes and interfaces
\* at startup and has changed since.
C9_Witness ==
    \E c \in Calls :
        /\ Responding(c)
        /\ frame[c].disks = <<>> /\ frame[c].network = <<>>
        /\ HostLoad(hostBoot).disks # <<>> /\ HostLoad(hostBoot).nets # {}
        /\ hostUptime > hostBoot

\* --- C10
\* C10 (as claimed): no invocation holds the read lock on the CpuInfo cell
\* while it performs the memory, disk or network queries.
C10_ReadLockReleasedEarly ==
    \A c \in Calls :
        pc[c] \in {"disks", "network"} => c \notin cpu_lock.readers

\* --- C11
\* C11: the Sampler holds the write lock on the CpuInfo cell only to store
\* the usage. While it sleeps or measures (and until write() at line 137)
\* it neither holds the write lock nor waits for it, and an invocation that
\* waits for the read lock waits only while the Sampler is between write()
\* and the drop of its guard, never while it sleeps or measures.
C11_WriteLockOnlyForStore ==
    /\ sampler.pc \in {"sleep", "measure", "write"} =>
          ~cpu_lock.writer /\ ~Queued(cpu_lock, Sampler)
    /\ \A c \in Calls :
          Queued(cpu_lock, c) => sampler.pc \in {"wait", "store", "drop"}

\* The Sampler measures its second cycle, the first one published, while
\* an invocation has been given the read lock without waiting.
C11_Witness ==
    /\ sampler.pc = "measure" /\ cycles = 1 /\ cellVer = 1
    /\ \E c \in Calls : pc[c] = "read_sys" /\ c \in cpu_lock.readers

\* --- C12
\* C12 (as claimed): an invocation never waits for the read lock on the
\* CpuInfo cell while another invocation holds that read lock, the case of
\* the Sampler waiting for the write lock behind that reader included.
C12_ReadersNeverDelayReaders ==
    \A c \in Calls : Queued(cpu_lock, c) => cpu_lock.readers = {}

\* C12 (amended): an invocation waits for the read lock only while the
\* Sampler holds the write lock or waits for it ahead of the invocation;
\* with the Sampler doing neither, read() is granted at once however many
\* invocations hold the read lock.
C12_ReadersWaitOnlyBehindSampler ==
    \A c \in Calls :
        Queued(cpu_lock, c) =>
            cpu_lock.writer \/ Sampler \in Ahead(cpu_lock, c)

\* Two invocations hold the read lock together after a Sampler cycle, the
\* second one given it while the first held it.
C12_Witness ==
    \E a, b \in Calls :
        /\ a # b /\ cycles >= 1
        /\ {a, b} \subseteq cpu_lock.readers
        /\ pc[a] \in PastCpuRead /\ pc[b] = "read_sys"
        /\ a \in obs[b].after
        /\ ~cpu_lock.writer /\ ~Queued(cpu_lock, Sampler)

\* --- C14
\* C14: an invocation of get_system_info is read-only on the shared state.
\* No step of an invocation (a step that moves an invocation's program
\* point) changes the CpuInfo cell or the shared System handle; the cell
\* changes only in the Sampler's store (line 138), and the handle never.
C14_ReadOnly ==
    [][/\ pc' # pc => cpu_info' = cpu_info /\ system' = system
       /\ cpu_info' # cpu_info => sampler.pc = "store" /\ sampler'.pc = "drop"
       /\ system' = system]_vars

\* An invocation has cloned both fields of a cell that holds a usage the
\* Sampler stored, and the cell still holds it.
C14_Witness ==
    \E c \in Calls :
        /\ Responding(c) /\ cellVer >= 1 /\ obs[c].verUsage = cellVer
        /\ cpu_info.usage > 0 /\ frame[c].cpu_info = cpu_info

\* --- C15
\* C15: a Sampler cycle changes only the usage of the CpuInfo cell. After
\* any number of cycles the cell, and every response, carries the model
\* set at startup: the first processor's brand, or "Unknown" on a host
\* where no processor was detected.
C15_ModelFixed ==
    /\ StartupModel = (IF hostCores = 0 THEN "Unknown" ELSE hostBrand)
    /\ cpu_info.model = StartupModel
    /\ \A c \in Calls : Responding(c) => frame[c].cpu_info.model = StartupModel

\* A response cloned after the second Sampler cycle carries "Unknown" on a
\* host without processors.
C15_Witness ==
    \E c \in Calls :
        /\ Responding(c) /\ cycles = 2 /\ obs[c].verModel = 2
        /\ hostCores = 0 /\ frame[c].cpu_info.model = "Unknown"

\* --- C17
\* C17: total - available (line 70) never underflows in u64. For every
\* (total, available) the System handle holds, an invocation about to
\* compute MemoryInfo subtracts without underflow, and the used it then
\* holds is the difference itself, with 0 <= used <= total.
C17_NoUnderflow ==
    \A c \in Calls :
        /\ pc[c] = "read_sys" =>
              ~U64Underflows(system.total_memory, system.available_memory)
        /\ pc[c] \in {"disks", "network", "clone_model", "clone_usage", "respond"} =>
              /\ frame[c].memory.used >= 0
              /\ frame[c].memory.used <= frame[c].memory.total
              /\ frame[c].memory.used + frame[c].memory.free = frame[c].memory.total

\* An invocation has computed MemoryInfo on a host whose memory was all
\* available at startup: the subtraction gave 0, the least value of u64.
C17_Witness ==
    \E c \in Calls :
        /\ pc[c] = "disks"
        /\ frame[c].memory.total > 0
        /\ frame[c].memory.free = frame[c].memory.total
        /\ frame[c].memory.used = 0

\* --- C16
\* C16 (as claimed): a Sampler cycle whose measurement failed publishes
\* nothing. No step taken while the measurement of the cycle in progress
\* has failed stores to the CpuInfo cell: the cell keeps the value it had.
C16_FailedCyclePublishesNothing ==
    [][sampler.failed => cpu_info' = cpu_info /\ cellVer' = cellVer]_vars

\* --- C13
\* A step of an invocation in flight or of the Sampler can be taken.
CanProgress == ENABLED (SamplerStep \/ \E c \in Calls : Proceed(c))

\* C13: under fair scheduling every invocation that has started comes to
\* hold both read locks with its SystemInfo built, and returns; and in no
\* reachable state with an invocation in flight are the invocations and
\* the Sampler all blocked.
C13_CallsReturn ==
    /\ []((\E c \in Calls : pc[c] # "idle") => CanProgress)
    /\ \A c \in Calls :
          /\ (pc[c] # "idle") ~>
                (Responding(c) /\ c \in cpu_lock.readers /\ c \in system_lock.readers)
          /\ Responding(c) ~> (pc[c] = "idle")

\* An invocation is about to return, holding both read locks, while the
\* Sampler waits for the write lock behind it and another invocation waits
\* behind the Sampler.
C13_Witness ==
    \E a, b \in Calls :
        /\ Responding(a) /\ a \in cpu_lock.readers /\ a \in system_lock.readers
        /\ Queued(cpu_lock, b) /\ Sampler \in Ahead(cpu_lock, b)

\* --- C18
\* C18: readers do not starve the Sampler. Under fair scheduling, with
\* requests arriving at any rate, a Sampler cycle that has reached write()
\* (line 137) comes to hold the write lock with its total stored in the
\* cell, then drops the guard with that total published; and the Sampler
\* completes every cycle the bound allows.
C18_SamplerNotStarved ==
    /\ (sampler.pc \in {"write", "wait"}) ~>
          (sampler.pc = "drop" /\ cpu_lock.writer
             /\ cpu_info.usage = sampler.total_usage)
    /\ (sampler.pc = "drop") ~>
          (sampler.pc = "sleep" /\ ~cpu_lock.writer /\ published = cpu_info.usage)
    /\ <>(cycles = MaxCycles)

\* The Sampler, which waited for the write lock behind a reader, has been
\* handed it, while an invocation that arrived in between waits behind it.
C18_Witness ==
    /\ sampler.pc = "wait" /\ cpu_lock.writer /\ cpu_lock.readers = {}
    /\ \E c \in Calls : Queued(cpu_lock, c)

====
